---- MODULE Spec2Model ----
(***************************************************************************)
(* Rebase-mint extension of the token-2022 program:                        *)
(*   extension/rebase_mint/mod.rs        RebaseMintConfig and conversions  *)
(*   extension/rebase_mint/processor.rs  Initialize / RebaseSupply         *)
(*   extension/rebase_mint/instruction.rs  instruction payloads            *)
(*                                                                         *)
(* f64 arithmetic of the source is modelled with exact rationals           *)
(* (numerator/denominator pairs) and Rust's round (half away from zero);   *)
(* float-to-integer casts saturate as Rust's `as` does.                    *)
(***************************************************************************)
EXTENDS Integers, Sequences, FiniteSets, TLC

VARIABLES
    mint_initialized,   \* base Mint state is initialized (InitializeMint ran)
    has_extension,      \* the RebaseMintConfig region exists in the mint
    extension,          \* the RebaseMintConfig record
    op,                 \* the last instruction / call and its inputs
    result,             \* ProgramResult of the last instruction
    value,              \* value returned by the last conversion call
    init_supply,        \* history: total_supply when the extension was set up
    init_shares,        \* history: total_shares when the extension was set up
    rebases             \* history: successful rebases so far (capped)

vars == <<mint_initialized, has_extension, extension, op, result, value,
          init_supply, init_shares, rebases>>

----------------------------------------------------------------------------
(* Bounds *)

MaxSupply == 4      \* largest initial_supply / new_supply tried
MaxShares == 6      \* largest total_shares of a config given to the conversions
MaxRebases == 4     \* successful rebases explored from one initialized mint
MaxAmount == 6      \* largest amount / shares given to the conversions
MaxDecimals == 2    \* largest `decimals` given to try_ui_amount_into_shares
MaxOpcode == 2      \* largest opcode byte given to process_instruction

(* Program constants *)

U16Max == 65535     \* range of `as u16`
ErrorScale == 10000 \* fixed-point scale of accumulated_rounding_error

TEST_TOTAL_SUPPLY == 1000   \* mod.rs tests
TEST_TOTAL_SHARES == 500    \* mod.rs tests

Keys == {"k1", "k2"}
NoKey == "none"     \* OptionalNonZeroPubkey: all-zero bytes
OptionalKeys == Keys \cup {NoKey}

----------------------------------------------------------------------------
(* Arithmetic helpers *)

Min(a, b) == IF a < b THEN a ELSE b

Abs(a) == IF a < 0 THEN -a ELSE a

\* f64::round of the non-negative rational num/den (den > 0): half away from zero
Round(num, den) == (2 * num + den) \div (2 * den)

\* `x as u16` for an integral float x: saturating
AsU16(x) == IF x < 0 THEN 0 ELSE Min(x, U16Max)

----------------------------------------------------------------------------
(* RebaseMintConfig *)

\* #[derive(Default, Zeroable)]: a freshly allocated extension is all zero
DefaultConfig ==
    [total_supply |-> 0, total_shares |-> 0,
     accumulated_rounding_error |-> 0, supply_authority |-> NoKey]

amount_to_shares_no_guard(config, amount) ==
    IF config.total_supply = 0 THEN 0
    ELSE Round(amount * config.total_shares, config.total_supply)

\* the conversion without `.round()`: the cast truncates
amount_to_shares_truncating(config, amount) ==
    IF config.total_supply = 0 THEN amount
    ELSE (amount * config.total_shares) \div config.total_supply

amount_to_shares(config, amount) ==
    IF config.total_supply = 0 THEN amount
    ELSE Round(amount * config.total_shares, config.total_supply)

shares_to_amount_inverted(config, shares) ==
    IF config.total_shares = 0 THEN shares
    ELSE IF config.total_supply = 0 THEN 0
    ELSE Round(shares * config.total_shares, config.total_supply)

shares_to_amount(config, shares) ==
    IF config.total_shares = 0 THEN shares
    ELSE Round(shares * config.total_supply, config.total_shares)

----------------------------------------------------------------------------
(* try_ui_amount_into_shares, mod.rs lines 95-109 *)

RECURSIVE Pow10(_)
Pow10(n) == IF n = 0 THEN 1 ELSE 10 * Pow10(n - 1)

\* the ui_amount strings tried
UiTexts == {"invalid", "-1", "NaN", "inf", "1e30", "0", "5", "0.29"}

\* ui_amount.parse::<f64>(): ok is FALSE when the parse fails; a finite
\* value is the decimal (-1)^neg * mant * 10^exp
parse_f64(text) ==
    CASE text = "-1"   -> [ok |-> TRUE, class |-> "fin", neg |-> TRUE,  mant |-> 1,  exp |-> 0]
      [] text = "NaN"  -> [ok |-> TRUE, class |-> "nan", neg |-> FALSE, mant |-> 0,  exp |-> 0]
      [] text = "inf"  -> [ok |-> TRUE, class |-> "inf", neg |-> FALSE, mant |-> 0,  exp |-> 0]
      [] text = "1e30" -> [ok |-> TRUE, class |-> "fin", neg |-> FALSE, mant |-> 1,  exp |-> 30]
      [] text = "0"    -> [ok |-> TRUE, class |-> "fin", neg |-> FALSE, mant |-> 0,  exp |-> 0]
      [] text = "5"    -> [ok |-> TRUE, class |-> "fin", neg |-> FALSE, mant |-> 5,  exp |-> 0]
      [] text = "0.29" -> [ok |-> TRUE, class |-> "fin", neg |-> FALSE, mant |-> 29, exp |-> -2]
      [] OTHER         -> [ok |-> FALSE, class |-> "nan", neg |-> FALSE, mant |-> 0, exp |-> 0]

\* scaled_amount * 10_f64.powi(decimals) is an f64 product: for these
\* (text, decimals) it falls just below the exact integer
\* (0.29 * 100.0 = 28.999999999999996 in IEEE-754 double arithmetic)
ProductBelowInteger == {<<"0.29", 2>>}

\* amount > (u64::MAX as f64), for a finite non-negative amount
\* mant * 10^e: 10^20 exceeds 2^64, the smaller amounts tried do not
ExceedsU64(p, e) == p.mant > 0 /\ e >= 20

\* `amount as u64`: the f64 product truncated toward zero
AmountAsU64(text, p, e) ==
    IF e >= 0
    THEN p.mant * Pow10(e) - (IF <<text, e - p.exp>> \in ProductBelowInteger
                              THEN 1 ELSE 0)
    ELSE p.mant \div Pow10(-e)

try_ui_amount_into_shares(config, text, decimals) ==
    LET p == parse_f64(text)
        e == p.exp + decimals
    IN  IF ~p.ok THEN [result |-> "InvalidArgument", value |-> 0]
        ELSE IF p.class = "nan" THEN [result |-> "InvalidArgument", value |-> 0]
        ELSE IF p.neg /\ (p.class = "inf" \/ p.mant > 0)
             THEN [result |-> "InvalidArgument", value |-> 0]
        ELSE IF p.class = "inf" \/ ExceedsU64(p, e)
             THEN [result |-> "InvalidArgument", value |-> 0]
        ELSE [result |-> "Ok",
              value |-> amount_to_shares(config, AmountAsU64(text, p, e))]

----------------------------------------------------------------------------
(* Collaborators of the processor *)

\* StateWithExtensionsMut::<Mint>::unpack_uninitialized
unpack_uninitialized(mint_init) == ~mint_init

\* StateWithExtensionsMut::<Mint>::unpack
unpack(mint_init) == mint_init

init_extension_overwrite(has_ext) == TRUE

\* init_extension: fails if the extension region already holds data
init_extension(has_ext) == ~has_ext

get_extension_mut_unchecked(has_ext) == TRUE

\* get_extension_mut: fails if the extension is absent
get_extension_mut(has_ext) == has_ext

\* Processor::validate_owner, single authority: the owner account is the
\* expected authority and it signed
validate_owner(expected_owner, owner, is_signer) ==
    owner = expected_owner /\ is_signer

----------------------------------------------------------------------------
(* process_rebase_supply, lines 67-97: the share arithmetic *)

\* adjusted_total_shares = total_shares * ratio + error / 10_000.0 is the
\* rational AdjWhole + AdjNum / AdjDen (for total_supply > 0)
AdjWhole(config, new_supply) ==
    (config.total_shares * new_supply) \div config.total_supply

AdjNum(config, new_supply) ==
    ((config.total_shares * new_supply) % config.total_supply) * ErrorScale
        + config.accumulated_rounding_error * config.total_supply

AdjDen(config) == ErrorScale * config.total_supply

rounded_total_shares(config, new_supply) ==
    IF config.total_supply = 0
    THEN \* ratio = +inf: 0 * inf = NaN -> 0, shares * inf = inf -> u16::MAX
         IF config.total_shares = 0 THEN 0 ELSE U16Max
    ELSE AsU16(AdjWhole(config, new_supply)
                + Round(AdjNum(config, new_supply), AdjDen(config)))

\* (new_error * 10_000.0).round() as u16, where
\* new_error = adjusted_total_shares - rounded_total_shares; a negative
\* new_error casts to 0, one of 8 shares or more (rounded_total_shares
\* saturated) casts to u16::MAX
new_error_as_u16(config, new_supply) ==
    IF config.total_supply = 0
    THEN IF config.total_shares = 0 THEN 0 ELSE U16Max
    ELSE LET whole == AdjWhole(config, new_supply) 
                        - rounded_total_shares(config, new_supply)
         IN  IF whole >= 8 THEN U16Max
             ELSE LET d == AdjNum(config, new_supply) + whole * AdjDen(config)
                  IN  IF d <= 0 THEN 0
                      ELSE AsU16(Round(d, config.total_supply))

potential_new_accumulated_error(config, new_supply) ==
    config.accumulated_rounding_error + new_error_as_u16(config, new_supply)

shares_to_distribute(config, new_supply) ==
    potential_new_accumulated_error(config, new_supply) \div ErrorScale

rebase_error_no_mod(config, new_supply) ==
    potential_new_accumulated_error(config, new_supply)

\* lines 84-93: the committed accumulated_rounding_error
rebase_error(config, new_supply) ==
    LET p == potential_new_accumulated_error(config, new_supply)
    IN  IF p >= ErrorScale THEN p % ErrorScale ELSE p

\* lines 84-97: line 87 adds the distributed shares to the old total_shares,
\* line 96 then overwrites total_shares with rounded_total_shares
rebase_shares(config, new_supply) ==
    rounded_total_shares(config, new_supply)

\* a commit that rebuilds the extension and drops supply_authority
rebase_commit_from_default(config, new_supply) ==
    [DefaultConfig EXCEPT
        !.total_shares = rebase_shares(config, new_supply),
        !.accumulated_rounding_error = rebase_error(config, new_supply),
        !.total_supply = new_supply]

rebase_commit(config, new_supply) ==
    [config EXCEPT !.total_shares = rebase_shares(config, new_supply),
                   !.accumulated_rounding_error = rebase_error(config, new_supply),
                   !.total_supply = new_supply]

----------------------------------------------------------------------------
(* Handlers: each returns the ProgramResult and the account state after it *)

State == [mint_initialized |-> mint_initialized,
          has_extension |-> has_extension,
          extension |-> extension]

Fail(st, err) == [result |-> err, st |-> st]

process_initialize(st, nacc, supply_authority, initial_supply) ==
    IF nacc < 1 THEN Fail(st, "NotEnoughAccountKeys")
    ELSE IF ~unpack_uninitialized(st.mint_initialized) THEN Fail(st, "LayoutError")
    ELSE IF ~init_extension(st.has_extension) THEN Fail(st, "LayoutError")
    ELSE [result |-> "Ok",
          st |-> [st EXCEPT !.has_extension = TRUE,
                            !.extension =
                                [DefaultConfig EXCEPT
                                    !.total_supply = initial_supply,
                                    !.supply_authority = supply_authority,
                                    !.accumulated_rounding_error = 0]]]

process_rebase_supply_no_validation(st, nacc, owner, is_signer, new_supply) ==
    IF nacc < 2 THEN Fail(st, "NotEnoughAccountKeys")
    ELSE IF ~unpack(st.mint_initialized) THEN Fail(st, "LayoutError")
    ELSE IF ~get_extension_mut(st.has_extension) THEN Fail(st, "LayoutError")
    ELSE IF st.extension.supply_authority = NoKey THEN Fail(st, "NoAuthorityExists")
    ELSE IF new_supply = 0 THEN Fail(st, "InvalidSupply")
    ELSE [result |-> "Ok",
          st |-> [st EXCEPT !.extension = rebase_commit(st.extension, new_supply)]]

process_rebase_supply_no_zero_check(st, nacc, owner, is_signer, new_supply) ==
    IF nacc < 2 THEN Fail(st, "NotEnoughAccountKeys")
    ELSE IF ~unpack(st.mint_initialized) THEN Fail(st, "LayoutError")
    ELSE IF ~get_extension_mut(st.has_extension) THEN Fail(st, "LayoutError")
    ELSE IF st.extension.supply_authority = NoKey THEN Fail(st, "NoAuthorityExists")
    ELSE IF ~validate_owner(st.extension.supply_authority, owner, is_signer)
         THEN Fail(st, "AuthorityError")
    ELSE [result |-> "Ok",
          st |-> [st EXCEPT !.extension = rebase_commit(st.extension, new_supply)]]

process_rebase_supply_no_authority_check(st, nacc, owner, is_signer, new_supply) ==
    IF nacc < 2 THEN Fail(st, "NotEnoughAccountKeys")
    ELSE IF ~unpack(st.mint_initialized) THEN Fail(st, "LayoutError")
    ELSE IF ~get_extension_mut(st.has_extension) THEN Fail(st, "LayoutError")
    ELSE IF ~validate_owner(st.extension.supply_authority, owner, is_signer)
         THEN Fail(st, "AuthorityError")
    ELSE IF new_supply = 0 THEN Fail(st, "InvalidSupply")
    ELSE [result |-> "Ok",
          st |-> [st EXCEPT !.extension = rebase_commit(st.extension, new_supply)]]

process_rebase_supply(st, nacc, owner, is_signer, new_supply) ==
    IF nacc < 2 THEN Fail(st, "NotEnoughAccountKeys")
    ELSE IF ~unpack(st.mint_initialized) THEN Fail(st, "LayoutError")
    ELSE IF ~get_extension_mut(st.has_extension) THEN Fail(st, "LayoutError")
    ELSE IF st.extension.supply_authority = NoKey THEN Fail(st, "NoAuthorityExists")
    ELSE IF ~validate_owner(st.extension.supply_authority, owner, is_signer)
         THEN Fail(st, "AuthorityError")
    ELSE IF new_supply = 0 THEN Fail(st, "InvalidSupply")
    ELSE [result |-> "Ok",
          st |-> [st EXCEPT !.extension = rebase_commit(st.extension, new_supply)]]

\* check_program_account: the invoking program id is the token program's
check_program_account(program_ok) == program_ok

\* decode_instruction_type: the one-byte opcode as a RebaseMintInstruction
\* (#[repr(u8)] enum: Initialize = 0, RebaseSupply = 1)
decode_instruction_type(opcode) ==
    CASE opcode = 0 -> "Initialize"
      [] opcode = 1 -> "RebaseSupply"
      [] OTHER      -> "Invalid"

\* decode_instruction_data: the payload has the layout of the data struct
decode_instruction_data(payload_ok) == payload_ok

process_instruction_swapped(st, ix) ==
    IF ~check_program_account(ix.program_ok) THEN Fail(st, "IncorrectProgramId")
    ELSE IF decode_instruction_type(ix.opcode) = "Invalid"
         THEN Fail(st, "InvalidInstructionData")
    ELSE IF ~decode_instruction_data(ix.payload_ok)
         THEN Fail(st, "InvalidInstructionData")
    ELSE IF decode_instruction_type(ix.opcode) = "RebaseSupply"
         THEN process_initialize(st, ix.nacc, ix.supply_authority,
                                 ix.initial_supply)
    ELSE process_rebase_supply(st, ix.nacc, ix.owner, ix.is_signer,
                               ix.new_supply)

process_instruction(st, ix) ==
    IF ~check_program_account(ix.program_ok) THEN Fail(st, "IncorrectProgramId")
    ELSE IF decode_instruction_type(ix.opcode) = "Invalid"
         THEN Fail(st, "InvalidInstructionData")
    ELSE IF ~decode_instruction_data(ix.payload_ok)
         THEN Fail(st, "InvalidInstructionData")
    ELSE IF decode_instruction_type(ix.opcode) = "Initialize"
         THEN process_initialize(st, ix.nacc, ix.supply_authority,
                                 ix.initial_supply)
    ELSE process_rebase_supply(st, ix.nacc, ix.owner, ix.is_signer,
                               ix.new_supply)

----------------------------------------------------------------------------
(* Actions *)

NoOp == [kind |-> "none", nacc |-> 0, supply_authority |-> NoKey,
         initial_supply |-> 0, owner |-> NoKey, is_signer |-> FALSE,
         new_supply |-> 0, amount |-> 0, text |-> "", decimals |-> 0,
         program_ok |-> TRUE, opcode |-> 0, payload_ok |-> TRUE]

Commit(r) ==
    /\ mint_initialized' = r.st.mint_initialized
    /\ has_extension' = r.st.has_extension
    /\ extension' = r.st.extension
    /\ result' = r.result

Initialize ==
    \E nacc \in 0..1, auth \in OptionalKeys, supply \in 0..MaxSupply :
        LET r == process_initialize(State, nacc, auth, supply) IN
        /\ Commit(r)
        /\ op' = [NoOp EXCEPT !.kind = "Initialize", !.nacc = nacc,
                              !.supply_authority = auth,
                              !.initial_supply = supply]
        /\ init_supply' = IF r.result = "Ok" THEN r.st.extension.total_supply
                          ELSE init_supply
        /\ init_shares' = IF r.result = "Ok" THEN r.st.extension.total_shares
                          ELSE init_shares
        /\ UNCHANGED <<value, rebases>>

\* the base mint's own initialization (InitializeMint), after which the
\* extension can no longer be initialized
InitializeMint ==
    /\ ~mint_initialized
    /\ mint_initialized' = TRUE
    /\ op' = [NoOp EXCEPT !.kind = "InitializeMint"]
    /\ result' = "Ok"
    /\ UNCHANGED <<has_extension, extension, value, init_supply, init_shares,
                   rebases>>

RebaseSupply ==
    \E nacc \in 1..2, owner \in Keys, is_signer \in BOOLEAN,
       new_supply \in 0..MaxSupply :
        LET r == process_rebase_supply(State, nacc, owner, is_signer, new_supply) IN
        /\ Commit(r)
        /\ op' = [NoOp EXCEPT !.kind = "RebaseSupply", !.nacc = nacc,
                              !.owner = owner, !.is_signer = is_signer,
                              !.new_supply = new_supply]
        /\ rebases' = IF r.result = "Ok" THEN Min(rebases + 1, MaxRebases)
                      ELSE rebases
        /\ UNCHANGED <<value, init_supply, init_shares>>

\* the instructions given to process_instruction: one with a foreign
\* program id, ones with an unknown opcode, ones with a malformed payload,
\* and well-formed Initialize and RebaseSupply instructions
Instruction == [NoOp EXCEPT !.kind = "process_instruction"]

Instructions ==
    {[Instruction EXCEPT !.program_ok = FALSE]}
    \cup {[Instruction EXCEPT !.opcode = o] : o \in 2..MaxOpcode}
    \cup {[Instruction EXCEPT !.opcode = o, !.payload_ok = FALSE] : o \in 0..1}
    \cup {[Instruction EXCEPT !.opcode = 0, !.nacc = 1,
                              !.supply_authority = a, !.initial_supply = s] :
             a \in OptionalKeys, s \in 0..MaxSupply}
    \cup {[Instruction EXCEPT !.opcode = 1, !.nacc = 2, !.owner = k,
                              !.is_signer = b, !.new_supply = s] :
             k \in Keys, b \in BOOLEAN, s \in 0..MaxSupply}

ProcessInstruction ==
    \E ix \in Instructions :
        LET r == process_instruction(State, ix)
            initialized == r.result = "Ok" /\ ~has_extension
            rebased == r.result = "Ok" /\ has_extension
        IN
        /\ Commit(r)
        /\ op' = ix
        /\ init_supply' = IF initialized THEN r.st.extension.total_supply
                          ELSE init_supply
        /\ init_shares' = IF initialized THEN r.st.extension.total_shares
                          ELSE init_shares
        /\ rebases' = IF rebased THEN Min(rebases + 1, MaxRebases)
                      ELSE rebases
        /\ UNCHANGED value

Init ==
    /\ mint_initialized = FALSE
    /\ has_extension = FALSE
    /\ extension = DefaultConfig
    /\ op = NoOp
    /\ result = "Ok"
    /\ value = 0
    /\ rebases = 0
    /\ init_supply = 0
    /\ init_shares = 0

Next == Initialize \/ InitializeMint \/ RebaseSupply \/ ProcessInstruction

Spec == Init /\ [][Next]_vars

----------------------------------------------------------------------------
(* The rebase arithmetic from any initialized mint: the extension as       *)
(* Initialize leaves it (total_shares = 0) or with a share count that      *)
(* differs from the supply, as the unit tests of mod.rs build it (shares   *)
(* exist only over a non-zero supply); no rounding error is banked yet.    *)

InitRebase ==
    /\ mint_initialized = TRUE
    /\ has_extension = TRUE
    /\ \E supply \in 0..MaxSupply, shares \in 0..MaxSupply, auth \in Keys :
          /\ supply = 0 => shares = 0
          /\ extension = [DefaultConfig EXCEPT !.total_supply = supply,
                                               !.total_shares = shares,
                                               !.supply_authority = auth]
          /\ init_supply = supply
          /\ init_shares = shares
    /\ op = NoOp
    /\ result = "Ok"
    /\ value = 0
    /\ rebases = 0

NextRebase == rebases < MaxRebases /\ RebaseSupply

SpecRebase == InitRebase /\ [][NextRebase]_vars

\* RebaseSupply with a new_supply at the top of the 16-bit wire range
\* (RebaseSupplyData.new_supply)
NearMaxSupplies == {U16Max - k : k \in 0..MaxSupply}

RebaseSupplyNearMax ==
    \E nacc \in 1..2, owner \in Keys, is_signer \in BOOLEAN,
       new_supply \in NearMaxSupplies :
        LET r == process_rebase_supply(State, nacc, owner, is_signer, new_supply) IN
        /\ Commit(r)
        /\ op' = [NoOp EXCEPT !.kind = "RebaseSupply", !.nacc = nacc,
                              !.owner = owner, !.is_signer = is_signer,
                              !.new_supply = new_supply]
        /\ rebases' = IF r.result = "Ok" THEN Min(rebases + 1, MaxRebases)
                      ELSE rebases
        /\ UNCHANGED <<value, init_supply, init_shares>>

\* rebases from the same initialized states, with supplies of both sizes;
\* the exploration stops after a rebase to a supply near the top
NextRebaseWide ==
    /\ rebases < MaxRebases
    /\ extension.total_supply <= MaxSupply
    /\ (RebaseSupply \/ RebaseSupplyNearMax)

SpecRebaseWide == InitRebase /\ [][NextRebaseWide]_vars

----------------------------------------------------------------------------
(* The conversions of RebaseMintConfig as pure functions of the config *)

\* the amounts tried: small ones and those of the unit tests of mod.rs
Amounts == (0..MaxAmount) \cup {250, 500}

AmountToShares ==
    \E amount \in Amounts :
        /\ value' = amount_to_shares(extension, amount)
        /\ op' = [NoOp EXCEPT !.kind = "amount_to_shares", !.amount = amount]
        /\ UNCHANGED <<mint_initialized, has_extension, extension, result,
                       init_supply, init_shares, rebases>>

SharesToAmount ==
    \E shares \in Amounts :
        /\ value' = shares_to_amount(extension, shares)
        /\ op' = [NoOp EXCEPT !.kind = "shares_to_amount", !.amount = shares]
        /\ UNCHANGED <<mint_initialized, has_extension, extension, result,
                       init_supply, init_shares, rebases>>

RoundTrip ==
    \E amount \in Amounts :
        /\ value' = shares_to_amount(extension, amount_to_shares(extension, amount))
        /\ op' = [NoOp EXCEPT !.kind = "round_trip", !.amount = amount]
        /\ UNCHANGED <<mint_initialized, has_extension, extension, result,
                       init_supply, init_shares, rebases>>

InitConv ==
    /\ mint_initialized = TRUE
    /\ has_extension = TRUE
    /\ \E supply \in (0..MaxSupply) \cup {TEST_TOTAL_SUPPLY},
          shares \in (0..MaxShares) \cup {TEST_TOTAL_SHARES} :
          /\ (supply = TEST_TOTAL_SUPPLY) <=> (shares = TEST_TOTAL_SHARES)
          /\ extension = [DefaultConfig EXCEPT !.total_supply = supply,
                                               !.total_shares = shares]
          /\ init_supply = supply
          /\ init_shares = shares
    /\ op = NoOp
    /\ result = "Ok"
    /\ value = 0
    /\ rebases = 0

NextConv == AmountToShares \/ SharesToAmount \/ RoundTrip

SpecConv == InitConv /\ [][NextConv]_vars

TryUiAmountIntoShares ==
    \E text \in UiTexts, decimals \in 0..MaxDecimals :
        LET r == try_ui_amount_into_shares(extension, text, decimals) IN
        /\ result' = r.result
        /\ value' = r.value
        /\ op' = [NoOp EXCEPT !.kind = "try_ui_amount_into_shares",
                              !.text = text, !.decimals = decimals]
        /\ UNCHANGED <<mint_initialized, has_extension, extension,
                       init_supply, init_shares, rebases>>

NextUi == TryUiAmountIntoShares

SpecUi == InitConv /\ [][NextUi]_vars

----------------------------------------------------------------------------
(* Properties *)

\* the layout and authority checks of process_rebase_supply pass for the
\* instruction op' executed in the current state
RebaseAuthorized ==
    /\ op'.nacc = 2
    /\ mint_initialized
    /\ has_extension
    /\ extension.supply_authority # NoKey
    /\ validate_owner(extension.supply_authority, op'.owner, op'.is_signer)

\* C1: a RebaseSupply whose signer does not satisfy the configured supply
\* authority returns the authority error and leaves the extension unchanged;
\* a RebaseSupply that returns any error has written no field of it.
C1_UnauthorizedRebaseRejected ==
    [][op'.kind = "RebaseSupply" =>
        /\ (/\ op'.nacc = 2 /\ mint_initialized /\ has_extension
            /\ extension.supply_authority # NoKey
            /\ ~validate_owner(extension.supply_authority, op'.owner,
                               op'.is_signer))
           => (result' = "AuthorityError" /\ extension' = extension)
        /\ (result' # "Ok" => extension' = extension)]_vars

C1_Witness ==
    /\ op.kind = "RebaseSupply"
    /\ result = "AuthorityError"
    /\ op.new_supply # 0
    /\ op.new_supply # extension.total_supply

\* C2: a RebaseSupply with new_supply = 0 never succeeds and leaves
\* total_supply, total_shares and accumulated_rounding_error unchanged; when
\* the layout and authority checks pass, the error is InvalidSupply.
C2_ZeroSupplyRejected ==
    [][(op'.kind = "RebaseSupply" /\ op'.new_supply = 0) =>
        /\ result' # "Ok"
        /\ extension' = extension
        /\ (RebaseAuthorized => result' = "InvalidSupply")]_vars

C2_Witness ==
    /\ op.kind = "RebaseSupply"
    /\ op.new_supply = 0
    /\ result = "InvalidSupply"
    /\ extension.total_supply > 0
    /\ extension.total_shares > 0
    /\ extension.accumulated_rounding_error > 0

\* C3: after any sequence of successful rebases,
\* 0 <= accumulated_rounding_error < 10000.
C3_ErrorBelowScale ==
    has_extension =>
        /\ 0 <= extension.accumulated_rounding_error
        /\ extension.accumulated_rounding_error < ErrorScale

C3_Witness ==
    /\ op.kind = "RebaseSupply"
    /\ result = "Ok"
    /\ rebases >= 3
    /\ extension.accumulated_rounding_error > ErrorScale \div 2

\* C4: an Initialize on a mint whose extension is already initialized fails
\* (with the layout error when the mint account is supplied) and leaves the
\* extension written by the first Initialize unchanged.
C4_SecondInitializeRejected ==
    [][(op'.kind = "Initialize" /\ has_extension) =>
        /\ result' # "Ok"
        /\ (op'.nacc >= 1 => result' = "LayoutError")
        /\ has_extension'
        /\ extension' = extension]_vars

C4_Witness ==
    /\ op.kind = "Initialize"
    /\ result = "LayoutError"
    /\ has_extension
    /\ ~mint_initialized
    /\ op.initial_supply # extension.total_supply
    /\ op.supply_authority # extension.supply_authority

\* C5: after a successful Initialize(authority, initial_supply) the extension
\* is total_supply = initial_supply, total_shares = initial_supply,
\* supply_authority = authority, accumulated_rounding_error = 0.
C5_InitializeState ==
    (op.kind = "Initialize" /\ result = "Ok") =>
        extension = [total_supply |-> op.initial_supply,
                     total_shares |-> op.initial_supply,
                     accumulated_rounding_error |-> 0,
                     supply_authority |-> op.supply_authority]

\* C6: with no supply authority configured, every RebaseSupply that reaches
\* the authority lookup fails with NoAuthorityExists whatever the signers,
\* and the extension never changes again.
C6_NoAuthorityDisablesRebase ==
    [][(has_extension /\ extension.supply_authority = NoKey) =>
        /\ extension' = extension
        /\ (op'.kind = "RebaseSupply" /\ op'.nacc = 2 /\ mint_initialized)
           => result' = "NoAuthorityExists"]_vars

C6_Witness ==
    /\ has_extension
    /\ extension.supply_authority = NoKey
    /\ op.kind = "RebaseSupply"
    /\ op.is_signer
    /\ op.new_supply > 0
    /\ op.new_supply # extension.total_supply
    /\ result = "NoAuthorityExists"

C9_RoundTripWithinOne ==
    (op.kind = "round_trip" /\ extension.total_supply > 0) =>
        Abs(value - op.amount) <= 1

\* C9 (amended): the round trip differs from amount by at most 1 when
\* total_supply > 0 and the share ratio is at least one half
\* (2 * total_shares >= total_supply).
C9_RoundTripWithinOneAmended ==
    (/\ op.kind = "round_trip"
     /\ extension.total_supply > 0
     /\ 2 * extension.total_shares >= extension.total_supply) =>
        Abs(value - op.amount) <= 1

C9_Witness ==
    /\ op.kind = "round_trip"
    /\ extension.total_supply > 0
    /\ 2 * extension.total_shares >= extension.total_supply
    /\ extension.total_shares < extension.total_supply
    /\ Abs(value - op.amount) = 1

\* C10: with total_supply = 0, amount_to_shares(x) = x; with
\* total_shares = 0, shares_to_amount(x) = x.
C10_ZeroGuardIdentity ==
    /\ (op.kind = "amount_to_shares" /\ extension.total_supply = 0)
         => value = op.amount
    /\ (op.kind = "shares_to_amount" /\ extension.total_shares = 0)
         => value = op.amount

C10_Witness ==
    /\ op.kind = "amount_to_shares"
    /\ extension.total_supply = 0
    /\ extension.total_shares > 0
    /\ op.amount > 0
    /\ value = op.amount

\* C11: with total_supply > 0, amount_to_shares(amount) is a nearest integer
\* to amount * total_shares / total_supply; with total_shares > 0,
\* shares_to_amount(shares) is a nearest integer to
\* shares * total_supply / total_shares; with supply 1000 and shares 500,
\* amount_to_shares(500) = 250, shares_to_amount(250) = 500, both map 0 to 0.
C11_RoundToNearest ==
    /\ (op.kind = "amount_to_shares" /\ extension.total_supply > 0) =>
          2 * Abs(value * extension.total_supply
                    - op.amount * extension.total_shares)
            <= extension.total_supply
    /\ (op.kind = "shares_to_amount" /\ extension.total_shares > 0) =>
          2 * Abs(value * extension.total_shares
                    - op.amount * extension.total_supply)
            <= extension.total_shares
    /\ (/\ extension.total_supply = TEST_TOTAL_SUPPLY
        /\ extension.total_shares = TEST_TOTAL_SHARES) =>
          /\ (op.kind = "amount_to_shares" /\ op.amount = 500) => value = 250
          /\ (op.kind = "shares_to_amount" /\ op.amount = 250) => value = 500
          /\ (op.kind \in {"amount_to_shares", "shares_to_amount"}
                /\ op.amount = 0) => value = 0

C11_Witness ==
    /\ extension.total_supply = TEST_TOTAL_SUPPLY
    /\ extension.total_shares = TEST_TOTAL_SHARES
    /\ op.kind = "amount_to_shares"
    /\ op.amount = 500
    /\ value = 250

\* C12: try_ui_amount_into_shares(text, decimals) returns InvalidArgument
\* when text is unparseable, negative, non-finite or above the u64 range
\* after scaling by 10^decimals; otherwise it returns
\* amount_to_shares(value * 10^decimals) (stated where that product is an
\* integer); "5" with 2 decimals under supply 1000 / shares 500 gives 250.
C12_UiAmountIntoShares ==
    op.kind = "try_ui_amount_into_shares" =>
        LET p == parse_f64(op.text)
            e == p.exp + op.decimals
        IN  IF \/ ~p.ok
               \/ p.class # "fin"
               \/ (p.neg /\ p.mant > 0)
               \/ (p.mant > 0 /\ e >= 20)
            THEN result = "InvalidArgument"
            ELSE /\ result = "Ok"
                 /\ e >= 0 =>
                      value = amount_to_shares(extension, p.mant * Pow10(e))
                 /\ (/\ op.text = "5" /\ op.decimals = 2
                     /\ extension.total_supply = TEST_TOTAL_SUPPLY
                     /\ extension.total_shares = TEST_TOTAL_SHARES)
                    => value = 250

\* C13: process_instruction routes opcode 0 to Initialize and opcode 1 to
\* RebaseSupply; an unknown opcode or a malformed payload returns an error;
\* whenever the instruction returns an error, no field of the mint's
\* extension state differs from its value before the call.
C13_DispatchContract ==
    [][op'.kind = "process_instruction" =>
        /\ (op'.opcode \notin {0, 1} \/ ~op'.payload_ok) => result' # "Ok"
        /\ (result' = "Ok" /\ op'.opcode = 0) =>
              /\ ~has_extension /\ has_extension'
              /\ extension'.total_supply = op'.initial_supply
              /\ extension'.supply_authority = op'.supply_authority
        /\ (result' = "Ok" /\ op'.opcode = 1) =>
              /\ has_extension /\ has_extension'
              /\ extension'.total_supply = op'.new_supply
              /\ extension'.supply_authority = extension.supply_authority
        /\ result' # "Ok" =>
              /\ extension' = extension
              /\ has_extension' = has_extension
              /\ mint_initialized' = mint_initialized]_vars

C13_Witness ==
    /\ op.kind = "process_instruction"
    /\ op.opcode = 1
    /\ op.payload_ok
    /\ result = "InvalidSupply"
    /\ has_extension
    /\ extension.total_supply > 0

\* a RebaseSupply instruction, invoked directly or through process_instruction
IsRebase(o) ==
    \/ o.kind = "RebaseSupply"
    \/ (o.kind = "process_instruction" /\ o.program_ok /\ o.opcode = 1
          /\ o.payload_ok)

\* C14: a RebaseSupply on a mint whose extension is not initialized fails
\* with the layout error and changes nothing; an initialized extension never
\* becomes uninitialized again, and its state changes only in a successful
\* RebaseSupply.
C14_Lifecycle ==
    [][/\ (IsRebase(op') /\ op'.nacc = 2 /\ ~has_extension) =>
            /\ result' = "LayoutError"
            /\ extension' = extension
            /\ ~has_extension'
       /\ has_extension => has_extension'
       /\ (has_extension /\ extension' # extension) =>
            (IsRebase(op') /\ result' = "Ok")]_vars

C14_Witness ==
    /\ IsRebase(op)
    /\ op.nacc = 2
    /\ op.is_signer
    /\ op.new_supply > 0
    /\ mint_initialized
    /\ ~has_extension
    /\ result = "LayoutError"

\* the exact adjusted value total_shares * new_supply / total_supply
\* + accumulated_rounding_error / 10000 of the rebase op' as the fraction
\* ExactAdjNum / ExactAdjDen, and the residual adjusted - total_shares' in
\* units of 1 / ExactAdjDen
ExactAdjNum ==
    extension.total_shares * op'.new_supply * ErrorScale
        + extension.accumulated_rounding_error * extension.total_supply

ExactAdjDen == ErrorScale * extension.total_supply

ExactResidual == ExactAdjNum - extension'.total_shares * ExactAdjDen

\* the step is a successful RebaseSupply from a non-zero supply whose
\* combined carry stays below 10000
RebaseBelowThreshold ==
    /\ op'.kind = "RebaseSupply"
    /\ result' = "Ok"
    /\ extension.total_supply > 0
    /\ potential_new_accumulated_error(extension, op'.new_supply) < ErrorScale

C18_SupplyNonZero ==
    has_extension => extension.total_supply # 0

\* C19: a RebaseSupply, successful or not, leaves supply_authority as it
\* is; the authority of an existing extension never changes, and it is the
\* one a successful Initialize was given.
C19_AuthorityFrame ==
    [][/\ IsRebase(op') => extension'.supply_authority = extension.supply_authority
       /\ has_extension =>
            extension'.supply_authority = extension.supply_authority
       /\ (~has_extension /\ has_extension') =>
            extension'.supply_authority = op'.supply_authority]_vars

C19_Witness ==
    /\ IsRebase(op)
    /\ result = "Ok"
    /\ rebases >= 2
    /\ extension.supply_authority \in Keys
    /\ extension.total_supply # init_supply

====
